---- MODULE Spec2Model ----
(***************************************************************************)
(* Model of the websockethandler registry (src/handler.go): the key ->     *)
(* handler map, the handler tree built by Handle, the sticky error state,  *)
(* and the two dispatch paths (CallFunc, CallPipelineFunc) that run each   *)
(* handler through the gate (shell).                                       *)
(*                                                                         *)
(* Spec models one goroutine using the registry: configuration calls       *)
(* (Handle, SetLogLevel, GetError) run from call to return in one step,    *)
(* a dispatch call runs step by step because the context's deadline, the   *)
(* caller's cancel and the channel's consumer act while it runs.           *)
(* SpecConfig is Spec without the dispatch calls. SpecConc models several  *)
(* goroutines calling Handle and the dispatch calls at the same time, step *)
(* by step at h.mutex.                                                     *)
(***************************************************************************)
EXTENDS Integers, Sequences, FiniteSets, TLC

(***************************************************************************)
(* Bounds of the model.                                                    *)
(***************************************************************************)
\* number of distinct WsFunc keys the callers use
NumKeys == 3
\* number of distinct function bodies (code pointers) among the handlers
NumCodes == 3
\* goroutines that call Handle at the same time
NumWriters == 2
\* goroutines that call CallFunc or CallPipelineFunc at the same time
NumDispatchers == 2
\* capacity of the channel handed to CallPipelineFunc
ChanCap == 1
\* turns of the gate's loop on a cancelled context that are followed
MaxSpins == 1
\* iterations of the pipeline loop that are followed: one more than the
\* longest chain without a cycle (a cyclic tree never ends the loop)
MaxSteps == NumCodes + 1

(***************************************************************************)
(* Program constants.                                                      *)
(***************************************************************************)
\* level iota constants
panicLevel == 0
fatalLevel == 1
errorLevel == 2
warnLevel == 3
infoLevel == 4
debugLevel == 5
traceLevel == 6
\* time.Second*30, in milliseconds: the budget of one pipeline step
StepTimeoutMs == 30000
\* time.Millisecond: the grace interval of the gate
GraceMs == 1

\* the payload status that stops a pipeline
ErrorLevel == "error"

(***************************************************************************)
(* Values.                                                                 *)
(***************************************************************************)
\* WsFunc{Event, Status}: compared structurally, so a key is one value
Keys == 1..NumKeys
Codes == 1..NumCodes
\* A HandlerFunc value: the code it runs and the variables it closes over.
\* Every function body is there once; the first one also as a second closure.
Funcs == {[code |-> c, env |-> 1] : c \in Codes} \cup {[code |-> 1, env |-> 2]}
\* Handle's variadic parent argument: no parent, or one
Parents == {<<>>} \cup {<<p>> : p \in Funcs}
\* a nil *wsHandlerTree
Nil == 0

\* the values of h.err, one per fmt.Errorf site
ErrNil == "nil"
ErrRegistered == "func with current params has been registered"
ErrHasChild == "the current function has a child function declaration"
ErrParentHasChild == "the parent function has a child function declaration"
ErrNoParent == "there is no registered parent function"
ErrDeclared == "this function is declared"
ErrLevel == "not a valid Level:SetLogLevel"

VARIABLES
  fun,        \* h.fun: WsFunc -> HandlerFunc
  funcTree,   \* h.funcTree: formatted function -> node; a node is named by its key
  err,        \* h.err
  logLevel,   \* h.logLevel
  readers,    \* h.mutex: number of read locks held
  last,       \* the API call made last: its name, h.err when it started, its result
  call,       \* the dispatch call in flight: its arguments, locals and position
  hcall,      \* the Handle call of each registering goroutine: arguments, position
  dcall       \* the position of each dispatching goroutine at h.mutex

regVars == <<fun, funcTree, err, logLevel>>
concVars == <<hcall, dcall>>
vars == <<fun, funcTree, err, logLevel, readers, last, call, hcall, dcall>>

(***************************************************************************)
(* Handle: registration.                                                   *)
(***************************************************************************)
\* fmt.Sprintf("%#v", f) of a func value prints its type and its code
\* pointer: closures of one function body format alike.
FuncKey(f) == f.code

\* &wsHandlerTree{main: f}
NewNode(f) == [main |-> f, parent |-> Nil, children |-> Nil]

\* Handle with a parent, lines 115-139: the registry after it.
HandleChild(meta, f, parentFunc) ==
  LET keyMain == FuncKey(f)
      keyParent == FuncKey(parentFunc)
      tree1 == IF keyMain \in DOMAIN funcTree
                 THEN funcTree
                 ELSE funcTree @@ (keyMain :> NewNode(f))
  IN  IF keyMain \in DOMAIN funcTree /\ funcTree[keyMain].children # Nil
        THEN [fun |-> fun, funcTree |-> funcTree, err |-> ErrHasChild]
      ELSE IF keyParent \in DOMAIN tree1
        THEN IF tree1[keyParent].children # Nil
               THEN [fun |-> fun, funcTree |-> tree1, err |-> ErrParentHasChild]
               ELSE [fun |-> fun @@ (meta :> f),
                     funcTree |-> [tree1 EXCEPT ![keyParent].children = keyMain,
                                                ![keyMain].parent = keyParent],
                     err |-> ErrNil]
      ELSE [fun |-> fun, funcTree |-> tree1, err |-> ErrNoParent]

\* Handle without a parent, lines 141-147.
HandleRoot(meta, f) ==
  LET keyMain == FuncKey(f)
  IN  IF keyMain \in DOMAIN funcTree
        THEN [fun |-> fun, funcTree |-> funcTree, err |-> ErrDeclared]
        ELSE [fun |-> fun @@ (meta :> f),
              funcTree |-> funcTree @@ (keyMain :> NewNode(f)),
              err |-> ErrNil]

\* HandleLocked, but a registered key takes the new handler
HandleLockedOverwrite(meta, f, parent) ==
  IF meta \in DOMAIN fun
    THEN [fun |-> [fun EXCEPT ![meta] = f], funcTree |-> funcTree,
          err |-> ErrRegistered]
  ELSE IF Len(parent) > 0
    THEN HandleChild(meta, f, parent[1])
    ELSE HandleRoot(meta, f)

\* The section of Handle run under the exclusive lock, lines 111-150.
HandleLocked(meta, f, parent) ==
  IF meta \in DOMAIN fun
    THEN [fun |-> fun, funcTree |-> funcTree, err |-> ErrRegistered]
  ELSE IF Len(parent) > 0
    THEN HandleChild(meta, f, parent[1])
    ELSE HandleRoot(meta, f)

\* Keys are compared for equality only, so the callers take fresh keys in
\* increasing order: a call names a registered key or the first free one.
KeyInUse(meta) == \A k \in 1..(meta - 1) : k \in DOMAIN fun

\* ConfigOpen, but the error state is not looked at
ConfigAlwaysOpen == TRUE

\* if h.err == nil, lines 93 and 108
ConfigOpen == err = ErrNil

\* Handle(meta, f, parent...), from call to return. Lock waits for the
\* read locks to be released.
Handle(meta, f, parent) ==
  /\ KeyInUse(meta)
  /\ readers = 0
  /\ call.pc = "idle"
  /\ IF ConfigOpen
       THEN LET r == HandleLocked(meta, f, parent)
            IN  /\ fun' = r.fun
                /\ funcTree' = r.funcTree
                /\ err' = r.err
       ELSE UNCHANGED <<fun, funcTree, err>>
  /\ last' = [op |-> "Handle", errBefore |-> err, ret |-> ErrNil]
  /\ UNCHANGED <<logLevel, readers, call, concVars>>

(***************************************************************************)
(* SetLogLevel, GetError.                                                  *)
(***************************************************************************)
\* the level strings the callers pass
LevelStrings == {"WARN", "bogus"}

\* strings.ToLower on the strings above
ToLower(s) == IF s = "WARN" THEN "warn" ELSE s

\* ParseLevel: the level and whether the string names one
ParseLevel(lvl) ==
  LET s == ToLower(lvl)
  IN  IF s = "panic" THEN [lvl |-> panicLevel, ok |-> TRUE]
      ELSE IF s = "fatal" THEN [lvl |-> fatalLevel, ok |-> TRUE]
      ELSE IF s = "error" THEN [lvl |-> errorLevel, ok |-> TRUE]
      ELSE IF s \in {"warn", "warning"} THEN [lvl |-> warnLevel, ok |-> TRUE]
      ELSE IF s = "info" THEN [lvl |-> infoLevel, ok |-> TRUE]
      ELSE IF s = "debug" THEN [lvl |-> debugLevel, ok |-> TRUE]
      ELSE IF s = "trace" THEN [lvl |-> traceLevel, ok |-> TRUE]
      ELSE [lvl |-> 0, ok |-> FALSE]

SetLogLevel(level) ==
  /\ call.pc = "idle"
  /\ IF ConfigOpen
       THEN LET r == ParseLevel(level)
            IN  IF r.ok
                  THEN logLevel' = r.lvl /\ UNCHANGED err
                  ELSE err' = ErrLevel /\ UNCHANGED logLevel
       ELSE UNCHANGED <<err, logLevel>>
  /\ last' = [op |-> "SetLogLevel", errBefore |-> err, ret |-> ErrNil]
  /\ UNCHANGED <<fun, funcTree, readers, call, concVars>>

GetError ==
  /\ call.pc = "idle"
  /\ last' = [op |-> "GetError", errBefore |-> err, ret |-> err]
  /\ UNCHANGED <<fun, funcTree, err, logLevel, readers, call, concVars>>

(***************************************************************************)
(* Dispatch: the values passed around.                                     *)
(***************************************************************************)
\* The Event field of key meta: a key is a WsFunc{Event, Status}, named here
\* by a number, and its event by that number.
EventOf(meta) == <<"event", meta>>
NoEvent == <<"", 0>>
ReplyEvent == <<"reply", 0>>
NoClient == "nil"
NoData == "nil"
TimeoutMarker == "timeout reached"

\* The WsFuncData the callers pass under a key: a message of the key's event.
Inputs(meta) ==
  {[Client |-> "conn",
    Payload |-> [Event |-> EventOf(meta), Data |-> "req", Status |-> ""]]}

\* What a handler may return: any call data (here: a reply with status ok or
\* error) and an error or nil.
HandlerResults ==
  {[d |-> [Client |-> "conn",
           Payload |-> [Event |-> ReplyEvent, Data |-> "res", Status |-> st]],
    err |-> e] : st \in {"ok", ErrorLevel}, e \in BOOLEAN}

\* the states of a context: not done, or done with Err() = DeadlineExceeded
\* or Canceled
CtxStates == {"live", "deadline", "canceled"}

\* the zero WsFuncData
NoCallData == [Client |-> NoClient,
               Payload |-> [Event |-> NoEvent, Data |-> NoData, Status |-> ""]]

\* the errors of the dispatch calls
CallNil == "nil"
CallNotRegistered == "func with current params has not been registered"
CallNotPipeline == "func with current params has not been registered for pipeline"

\* TimeoutData, but the client handle is dropped
TimeoutDataNoClient(data) ==
  [Client |-> NoClient,
   Payload |-> [Event |-> data.Payload.Event, Data |-> TimeoutMarker,
                Status |-> ErrorLevel]]

\* WsFuncData of the gate on an expired deadline, lines 224-231
TimeoutData(data) ==
  [Client |-> data.Client,
   Payload |-> [Event |-> data.Payload.Event, Data |-> TimeoutMarker,
                Status |-> ErrorLevel]]

\* MissPayload, but the event is left empty
MissPayloadNoEvent(data) ==
  [Event |-> NoEvent, Data |-> NoData, Status |-> ErrorLevel]

\* MissPayload, but the status is left empty
MissPayloadNoStatus(data) ==
  [Event |-> data.Payload.Event, Data |-> NoData, Status |-> ""]

\* MessagePayload{Event: data.Payload.Event, Status: ErrorLevel}, lines 183, 187, 208
MissPayload(data) ==
  [Event |-> data.Payload.Event, Data |-> NoData, Status |-> ErrorLevel]

IdleCall ==
  [pc |-> "idle", op |-> "none", meta |-> 0, data |-> NoCallData,
   ctx |-> "live", sub |-> "live", node |-> Nil, fn |-> 0, step |-> 0,
   hin |-> NoCallData, d |-> NoCallData, herr |-> FALSE, spins |-> 0,
   invoked |-> <<>>, pushed |-> <<>>, chLen |-> 0, ret |-> CallNil]

\* context.WithTimeout(ctx, time.Second*30), line 167: a child of a context
\* that is done is done with the same error
WithTimeout(c) == c

\* The argument the pipeline loop hands to the gate in each iteration, line
\* 170: the parameter data, which the loop never assigns.
StepInput(c) == c.data

(***************************************************************************)
(* CallPipelineFunc.                                                       *)
(***************************************************************************)
\* Lines 157-165 and 182-189: RLock, the two lookups, and the first
\* WithTimeout of the loop.
CallPipelineFunc(ctx0, meta, data) ==
  /\ KeyInUse(meta)
  /\ call.pc = "idle"
  /\ readers' = readers + 1
  /\ last' = [op |-> "CallPipelineFunc", errBefore |-> err, ret |-> CallNil]
  /\ LET c0 == [IdleCall EXCEPT !.op = "CallPipelineFunc", !.meta = meta,
                                !.data = data, !.ctx = ctx0]
     IN  IF meta \in DOMAIN fun
           THEN LET keyMain == FuncKey(fun[meta])
                IN  IF keyMain \in DOMAIN funcTree
                      THEN call' = [c0 EXCEPT !.pc = "select", !.node = keyMain,
                                              !.fn = funcTree[keyMain].main,
                                              !.step = 1,
                                              !.sub = WithTimeout(ctx0),
                                              !.hin = StepInput(c0)]
                      ELSE call' = [c0 EXCEPT !.pc = "pushmiss",
                                              !.d.Payload = MissPayload(data),
                                              !.ret = CallNotPipeline]
           ELSE call' = [c0 EXCEPT !.pc = "pushmiss",
                                   !.d.Payload = MissPayload(data),
                                   !.ret = CallNotRegistered]
  /\ UNCHANGED <<regVars, concVars>>

\* ch <- MessagePayload{...} and the return of the error, lines 183-184, 187-188
PushMiss ==
  /\ call.pc = "pushmiss"
  /\ call.chLen < ChanCap
  /\ call' = [call EXCEPT !.pc = "returned", !.chLen = @ + 1,
                          !.pushed = Append(@, [node |-> Nil, payload |-> call.d.Payload])]
  /\ readers' = readers - 1
  /\ UNCHANGED <<regVars, last, concVars>>

\* AfterPush, but a payload with status error does not end the loop
AfterPushNoBreak(c) ==
  LET c1 == [c EXCEPT !.chLen = @ + 1,
                      !.pushed = Append(@, [node |-> c.node, payload |-> c.d.Payload])]
  IN  IF funcTree[c.node].children # Nil
        THEN [c1 EXCEPT !.pc = "select", !.node = funcTree[c.node].children,
                        !.fn = funcTree[funcTree[c.node].children].main,
                        !.step = @ + 1, !.sub = WithTimeout(c.ctx), !.spins = 0,
                        !.hin = StepInput(c)]
        ELSE [c1 EXCEPT !.pc = "returned", !.ret = CallNil]

\* AfterPush, but a step whose handler returned an error ends the loop
AfterPushStopOnError(c) ==
  LET c1 == [c EXCEPT !.chLen = @ + 1,
                      !.pushed = Append(@, [node |-> c.node, payload |-> c.d.Payload])]
  IN  IF c.d.Payload.Status = ErrorLevel \/ c.herr
        THEN [c1 EXCEPT !.pc = "returned", !.ret = CallNil]
      ELSE IF funcTree[c.node].children # Nil
        THEN [c1 EXCEPT !.pc = "select", !.node = funcTree[c.node].children,
                        !.fn = funcTree[funcTree[c.node].children].main,
                        !.step = @ + 1, !.sub = WithTimeout(c.ctx), !.spins = 0,
                        !.hin = StepInput(c)]
      ELSE [c1 EXCEPT !.pc = "returned", !.ret = CallNil]

\* The frame after ch <- d.Payload and the rest of the iteration, lines
\* 171-181: stop on status error, else go to the child, else stop.
AfterPush(c) ==
  LET c1 == [c EXCEPT !.chLen = @ + 1,
                      !.pushed = Append(@, [node |-> c.node, payload |-> c.d.Payload])]
  IN  IF c.d.Payload.Status = ErrorLevel
        THEN [c1 EXCEPT !.pc = "returned", !.ret = CallNil]
      ELSE IF funcTree[c.node].children # Nil
        THEN [c1 EXCEPT !.pc = "select", !.node = funcTree[c.node].children,
                        !.fn = funcTree[funcTree[c.node].children].main,
                        !.step = @ + 1, !.sub = WithTimeout(c.ctx), !.spins = 0,
                        !.hin = StepInput(c)]
      ELSE [c1 EXCEPT !.pc = "returned", !.ret = CallNil]

\* ch <- d.Payload, line 171, blocks while the channel is full
Push ==
  /\ call.pc = "push"
  /\ call.chLen < ChanCap
  /\ LET c == AfterPush(call)
     IN  /\ c.step <= MaxSteps
         /\ call' = c
         /\ readers' = IF c.pc = "returned" THEN readers - 1 ELSE readers
  /\ UNCHANGED <<regVars, last, concVars>>

\* The consumer of the channel takes a payload. The dispatcher sees the
\* channel only when it pushes, so the step is followed while a push waits.
Consume ==
  /\ call.pc \in {"push", "pushmiss"}
  /\ call.chLen > 0
  /\ call' = [call EXCEPT !.chLen = @ - 1]
  /\ UNCHANGED <<regVars, readers, last, concVars>>

(***************************************************************************)
(* CallFunc.                                                               *)
(***************************************************************************)
\* Lines 194-210: on a miss the call returns at once.
CallFunc(ctx0, meta, data) ==
  /\ KeyInUse(meta)
  /\ call.pc = "idle"
  /\ last' = [op |-> "CallFunc", errBefore |-> err, ret |-> CallNil]
  /\ LET c0 == [IdleCall EXCEPT !.op = "CallFunc", !.meta = meta,
                                !.data = data, !.ctx = ctx0, !.sub = ctx0]
     IN  IF meta \in DOMAIN fun
           THEN /\ call' = [c0 EXCEPT !.pc = "select", !.fn = fun[meta],
                                      !.step = 1, !.hin = data]
                /\ readers' = readers + 1
           ELSE /\ call' = [c0 EXCEPT !.pc = "returned",
                                      !.d.Payload = MissPayload(data),
                                      !.ret = CallNotRegistered]
                /\ UNCHANGED readers
  /\ UNCHANGED <<regVars, concVars>>

(***************************************************************************)
(* shell: the gate.                                                        *)
(***************************************************************************)
\* ShellReturn, but past the deadline the gate returns the timeout payload
\* in place of what the handler returned
ShellReturnDeadline(c, d, herr) ==
  LET out == IF c.sub = "deadline" THEN TimeoutData(c.hin) ELSE d
  IN  IF c.op = "CallFunc"
        THEN [c EXCEPT !.pc = "returned", !.d = out, !.herr = herr, !.ret = CallNil]
        ELSE [c EXCEPT !.pc = "push", !.d = out, !.herr = herr]

\* ShellReturn, but CallFunc returns the error of the handler
ShellReturnError(c, d, herr) ==
  IF c.op = "CallFunc"
    THEN [c EXCEPT !.pc = "returned", !.d = d, !.herr = herr,
                   !.ret = IF herr THEN "handler error" ELSE CallNil]
    ELSE [c EXCEPT !.pc = "push", !.d = d, !.herr = herr]

\* The frame when the gate returns d: CallFunc returns it with a nil error,
\* the pipeline goes on to push it.
ShellReturn(c, d, herr) ==
  IF c.op = "CallFunc"
    THEN [c EXCEPT !.pc = "returned", !.d = d, !.herr = herr, !.ret = CallNil]
    ELSE [c EXCEPT !.pc = "push", !.d = d, !.herr = herr]

\* case <-ctx.Done() with ctx.Err() == context.DeadlineExceeded, lines 216-232
ShellTimeout ==
  /\ call.pc = "select"
  /\ call.sub = "deadline"
  /\ call' = ShellReturn(call, TimeoutData(call.hin), FALSE)
  /\ readers' = IF call.op = "CallFunc" THEN readers - 1 ELSE readers
  /\ UNCHANGED <<regVars, last, concVars>>

\* case <-ctx.Done() with any other ctx.Err(): no return, the for loop turns
\* again. The select polls its cases as it is entered: ctx.Done() is ready
\* and the timer made for this turn is not, so the turn ends the same way.
ShellSpin ==
  /\ call.pc = "select"
  /\ call.sub = "canceled"
  /\ call.spins < MaxSpins
  /\ call' = [call EXCEPT !.spins = @ + 1]
  /\ UNCHANGED <<regVars, readers, last, concVars>>

\* case <-time.After(time.Millisecond), lines 233-234: the handler is called
ShellGrace ==
  /\ call.pc = "select"
  /\ call.sub = "live"
  /\ call' = [call EXCEPT !.pc = "handler",
                          !.invoked = Append(@, call.fn)]
  /\ UNCHANGED <<regVars, readers, last, concVars>>

\* the handler returns, lines 234-243
HandlerReturn(r) ==
  /\ call.pc = "handler"
  /\ call' = ShellReturn(call, r.d, r.err)
  /\ readers' = IF call.op = "CallFunc" THEN readers - 1 ELSE readers
  /\ UNCHANGED <<regVars, last, concVars>>

(***************************************************************************)
(* The contexts.                                                           *)
(***************************************************************************)
\* the gate's context follows its parent while it is not done itself
Propagate(c, to) ==
  [c EXCEPT !.ctx = to,
            !.sub = IF c.sub = "live" THEN to ELSE c.sub]

\* The caller cancels the context of the call. Only WithTimeout and the gate
\* read the context: a cancel during a push is seen as one before the next
\* select, so the steps are followed while the gate runs.
CtxCancel ==
  /\ call.pc \in {"select", "handler"}
  /\ call.ctx = "live"
  /\ call' = Propagate(call, "canceled")
  /\ UNCHANGED <<regVars, readers, last, concVars>>

\* the deadline of the caller's context passes
CtxDeadline ==
  /\ call.pc \in {"select", "handler"}
  /\ call.ctx = "live"
  /\ call' = Propagate(call, "deadline")
  /\ UNCHANGED <<regVars, readers, last, concVars>>

\* The 30 s of a pipeline step pass: while the handler runs, because the
\* gate's select ends after the 1 ms grace interval.
StepDeadline ==
  /\ call.op = "CallPipelineFunc"
  /\ call.sub = "live"
  /\ \/ call.pc = "handler"
     \/ call.pc = "select" /\ StepTimeoutMs <= GraceMs
  /\ call' = [call EXCEPT !.sub = "deadline"]
  /\ UNCHANGED <<regVars, readers, last, concVars>>

\* the caller takes the result of the dispatch call
Return ==
  /\ call.pc = "returned"
  /\ call' = IdleCall
  /\ last' = [last EXCEPT !.ret = call.ret]
  /\ UNCHANGED <<regVars, readers, concVars>>

(***************************************************************************)
(* Goroutines at h.mutex. Each registering goroutine runs Handle in steps:  *)
(* the check of h.err, Lock, the locked section with the deferred Unlock.   *)
(* Each dispatching goroutine takes the read lock, runs its call (the body  *)
(* is the call frame above) and releases it.                                *)
(*                                                                         *)
(* sync.RWMutex: Lock first excludes the other writers (rw.w), announces    *)
(* the writer, then waits for the read locks held to be released; RLock     *)
(* blocks while a writer is announced or holds the lock; Unlock hands the   *)
(* lock to the readers that blocked meanwhile.                              *)
(***************************************************************************)
Writers == 1..NumWriters
Dispatchers == 1..NumDispatchers

\* the Handle calls the registering goroutines make
ConcKeys == {k \in Keys : k < NumKeys}
ConcFuncs == {f \in Funcs : f.code < NumCodes /\ f.env = 1}
ConcParents == {<<>>} \cup {<<p>> : p \in ConcFuncs}

IdleHandle == [pc |-> "idle", meta |-> 0, f |-> 0, parent |-> <<>>]

\* the goroutines that have announced themselves as the writer or hold the lock
WriterAhead == {t \in Writers : hcall[t].pc \in {"pending", "locked"}}

\* CanLock, but the read locks held are not waited for
CanLockAnyTime == TRUE

\* the announced writer gets the lock when no read lock is held
CanLock == readers = 0

\* CanRLock, but the lock is exclusive among the readers as well
CanRLockExclusive == WriterAhead = {} /\ readers = 0

\* RLock does not block: no writer is announced or holds the lock
CanRLock == WriterAhead = {}

\* Handle, line 108: the check of h.err, made before the lock is taken. On
\* an error the call returns at once.
HandleEnter(t, meta, f, parent) ==
  /\ hcall[t].pc = "idle"
  /\ KeyInUse(meta)
  /\ ConfigOpen
  /\ hcall' = [hcall EXCEPT ![t] = [pc |-> "lock", meta |-> meta, f |-> f,
                                    parent |-> parent]]
  /\ UNCHANGED <<regVars, readers, last, call, dcall>>

\* h.mutex.Lock(), line 109, first half: the goroutine is the one writer and
\* is announced to the readers
HandleWLock(t) ==
  /\ hcall[t].pc = "lock"
  /\ WriterAhead = {}
  /\ hcall' = [hcall EXCEPT ![t].pc = "pending"]
  /\ UNCHANGED <<regVars, readers, last, call, dcall>>

\* h.mutex.Lock(), second half: the read locks are released, Lock returns
HandleAcquire(t) ==
  /\ hcall[t].pc = "pending"
  /\ CanLock
  /\ hcall' = [hcall EXCEPT ![t].pc = "locked"]
  /\ UNCHANGED <<regVars, readers, last, call, dcall>>

\* Lines 111-152 and the deferred Unlock: the locked section, then the lock
\* goes to the readers that blocked since the writer was announced. A
\* section that rejects nothing does not assign h.err.
HandleExit(t) ==
  /\ hcall[t].pc = "locked"
  /\ LET r == HandleLocked(hcall[t].meta, hcall[t].f, hcall[t].parent)
         released == {d \in Dispatchers : dcall[d] = "blocked"}
     IN  /\ fun' = r.fun
         /\ funcTree' = r.funcTree
         /\ err' = IF r.err = ErrNil THEN err ELSE r.err
         /\ dcall' = [d \in Dispatchers |->
                        IF d \in released THEN "in" ELSE dcall[d]]
         /\ readers' = readers + Cardinality(released)
  /\ hcall' = [hcall EXCEPT ![t] = IdleHandle]
  /\ UNCHANGED <<logLevel, last, call>>

\* h.mutex.RLock(), lines 157 and 194
DispatchRLock(d) ==
  /\ dcall[d] = "idle"
  /\ IF CanRLock
       THEN dcall' = [dcall EXCEPT ![d] = "in"] /\ readers' = readers + 1
       ELSE dcall' = [dcall EXCEPT ![d] = "blocked"] /\ UNCHANGED readers
  /\ UNCHANGED <<regVars, last, call, hcall>>

\* the deferred h.mutex.RUnlock(), lines 158 and 195: the dispatch returned
DispatchRUnlock(d) ==
  /\ dcall[d] = "in"
  /\ dcall' = [dcall EXCEPT ![d] = "idle"]
  /\ readers' = readers - 1
  /\ UNCHANGED <<regVars, last, call, hcall>>

(***************************************************************************)
(* NewHandler.                                                             *)
(***************************************************************************)
Init ==
  /\ fun = <<>>
  /\ funcTree = <<>>
  /\ err = ErrNil
  /\ logLevel = infoLevel
  /\ readers = 0
  /\ last = [op |-> "NewHandler", errBefore |-> ErrNil, ret |-> ErrNil]
  /\ call = IdleCall
  /\ hcall = [t \in Writers |-> IdleHandle]
  /\ dcall = [d \in Dispatchers |-> "idle"]

Next ==
  \/ \E meta \in Keys, f \in Funcs, parent \in Parents : Handle(meta, f, parent)
  \/ \E level \in LevelStrings : SetLogLevel(level)
  \/ GetError
  \/ \E ctx0 \in CtxStates, meta \in Keys : \E data \in Inputs(meta) :
       CallPipelineFunc(ctx0, meta, data)
  \/ \E ctx0 \in CtxStates, meta \in Keys : \E data \in Inputs(meta) :
       CallFunc(ctx0, meta, data)
  \/ PushMiss
  \/ Push
  \/ Consume
  \/ ShellTimeout
  \/ ShellSpin
  \/ ShellGrace
  \/ \E r \in HandlerResults : HandlerReturn(r)
  \/ CtxCancel
  \/ CtxDeadline
  \/ StepDeadline
  \/ Return

Spec == Init /\ [][Next]_vars

\* the configuration calls alone
NextConfig ==
  \/ \E meta \in Keys, f \in Funcs, parent \in Parents : Handle(meta, f, parent)
  \/ \E level \in LevelStrings : SetLogLevel(level)
  \/ GetError

SpecConfig == Init /\ [][NextConfig]_vars

\* the goroutines at the lock
NextConc ==
  \/ \E t \in Writers, meta \in ConcKeys, f \in ConcFuncs, parent \in ConcParents :
       HandleEnter(t, meta, f, parent)
  \/ \E t \in Writers : HandleWLock(t)
  \/ \E t \in Writers : HandleAcquire(t)
  \/ \E t \in Writers : HandleExit(t)
  \/ \E d \in Dispatchers : DispatchRLock(d)
  \/ \E d \in Dispatchers : DispatchRUnlock(d)

SpecConc == Init /\ [][NextConc]_vars

(***************************************************************************)
(* Registration: the claims.                                               *)
(***************************************************************************)
\* the parent and children links of the nodes of tree t are those they have in s
LinksKept(s, t) ==
  \A k \in DOMAIN s :
    /\ k \in DOMAIN t
    /\ t[k].parent = s[k].parent
    /\ t[k].children = s[k].children

\* C5: a Handle call with a fresh key, made while no error is set, whose
\* function's node is already the child of another parent node, or already
\* has a child, sets the error state and leaves every existing parent and
\* children link unchanged.
C5_LinkedChildRejected ==
  [][\A meta \in Keys, f \in Funcs, p \in Funcs :
       ( /\ Handle(meta, f, <<p>>)
         /\ err = ErrNil
         /\ meta \notin DOMAIN fun
         /\ FuncKey(f) \in DOMAIN funcTree
         /\ \/ funcTree[FuncKey(f)].parent \notin {Nil, FuncKey(p)}
            \/ funcTree[FuncKey(f)].children # Nil )
       => /\ err' # ErrNil
          /\ LinksKept(funcTree, funcTree')]_vars

\* C6: a Handle call whose key already has a registered handler sets the
\* error state and changes neither the key -> handler map nor the tree,
\* whatever handler and parent it names: a step ends with the error set and
\* the registry as it was, or it is no Handle call on a registered key.
C6_DuplicateKeyRejected ==
  [][\/ /\ err' # ErrNil
        /\ fun' = fun
        /\ funcTree' = funcTree
        /\ logLevel' = logLevel
     \/ \A meta \in DOMAIN fun : \A f \in Funcs, parent \in Parents :
          ~Handle(meta, f, parent)]_vars

\* C6, its case: a Handle call on a registered key was made and rejected
C6_Witness == last.op = "Handle" /\ err = ErrRegistered

\* C7: once the error state is set, every configuration call that starts
\* leaves the key -> handler map, the tree, the log threshold and the error
\* unchanged, and GetError returns that error without clearing it: a step
\* from a state with the error set keeps the registry (and, if it is a
\* GetError, returns the error), or it is no configuration call.
C7_StickyError ==
  [][err # ErrNil
     => \/ /\ UNCHANGED regVars
           /\ last'.op = "GetError" => last'.ret = err
        \/ ~ \/ \E meta \in Keys, f \in Funcs, parent \in Parents :
                  Handle(meta, f, parent)
             \/ \E level \in LevelStrings : SetLogLevel(level)
             \/ GetError]_vars

\* C7, its case: a Handle or SetLogLevel call was made with the error set,
\* after an earlier call had been rejected
C7_Witness ==
  /\ last.op \in {"Handle", "SetLogLevel"}
  /\ last.errBefore # ErrNil

\* C8: every tree node has at most one parent: no two distinct nodes have
\* the same node as their children link, and whenever node p has children =
\* c, c has parent = p.
C8_OneParent ==
  \A p \in DOMAIN funcTree :
    funcTree[p].children # Nil =>
      /\ funcTree[funcTree[p].children].parent = p
      /\ \A q \in DOMAIN funcTree :
           q # p => funcTree[q].children # funcTree[p].children

\* C9: a children link, once set, is not replaced or cleared by a later
\* Handle call; and a Handle call naming as parent a function whose node
\* already has a child, or a function that has no tree node, sets the error
\* state and adds nothing to the key -> handler map.
C9_ChildrenWriteOnce ==
  [][\A meta \in Keys, f \in Funcs, parent \in Parents :
       Handle(meta, f, parent)
       => /\ \A k \in DOMAIN funcTree :
               funcTree[k].children # Nil =>
                 /\ k \in DOMAIN funcTree'
                 /\ funcTree'[k].children = funcTree[k].children
          /\ ( /\ Len(parent) > 0
               /\ \/ FuncKey(parent[1]) \notin DOMAIN funcTree
                  \/ funcTree[FuncKey(parent[1])].children # Nil )
             => /\ err' # ErrNil
                /\ fun' = fun]_vars

(***************************************************************************)
(* Dispatch: the claims.                                                   *)
(***************************************************************************)
RECURSIVE ChainFrom(_, _)
\* the nodes reached from node k by the children links, at most n of them
ChainFrom(k, n) ==
  IF k = Nil \/ n = 0
    THEN <<>>
    ELSE <<k>> \o ChainFrom(funcTree[k].children, n - 1)

\* a pipeline call on a registered key is in flight or has just returned
InPipeline ==
  /\ call.op = "CallPipelineFunc"
  /\ call.meta \in DOMAIN fun
  /\ FuncKey(fun[call.meta]) \in DOMAIN funcTree

\* the chain of the key of the call, as far as the loop is followed
CallChain == ChainFrom(FuncKey(fun[call.meta]), MaxSteps)

\* C1: in a pipeline call on a chain h1 -> ... -> hn, the first handler
\* receives the caller's data and every later handler receives the call data
\* the step before it returned.
C1_Fold ==
  (InPipeline /\ Len(CallChain) < MaxSteps /\ call.pc = "handler")
  => call.hin = IF call.step = 1 THEN call.data ELSE call.d

\* C2: the payloads are pushed in chain order, one per step; the handler
\* of step i + 1 is not invoked before the payload of step i is pushed;
\* no step follows one whose payload has status error; and the call returns
\* after the first such payload, or else after the payload of the last
\* handler of the chain.
C2_ChainOrder ==
  InPipeline =>
    LET k == Len(call.pushed)
        m == Len(call.invoked)
    IN  /\ k <= Len(CallChain)
        /\ \A i \in 1..k : call.pushed[i].node = CallChain[i]
        /\ m <= k + 1
        /\ m <= Len(CallChain)
        /\ \A i \in 1..m : call.invoked[i] = funcTree[CallChain[i]].main
        /\ \A i \in 1..(k - 1) : call.pushed[i].payload.Status # ErrorLevel
        /\ k >= 1 /\ call.pushed[k].payload.Status = ErrorLevel
             => call.pc = "returned" /\ m <= k
        /\ call.pc = "returned"
             => /\ k >= 1
                /\ m <= k
                /\ \/ call.pushed[k].payload.Status = ErrorLevel
                   \/ k = Len(CallChain) /\ k < MaxSteps

\* C2, its case: a chain of three handlers whose second step returned
\* status error: two payloads were pushed and two handlers invoked
C2_Witness ==
  /\ InPipeline
  /\ call.pc = "returned"
  /\ Len(CallChain) = 3
  /\ Len(call.pushed) = 2
  /\ Len(call.invoked) = 2
  /\ call.pushed[2].payload.Status = ErrorLevel

\* C3: when the 30 s of a step pass while its handler runs (the handler was
\* invoked, the step's context is past its deadline and the caller's is
\* not done), the payload of the step has status error and the timeout
\* marker.
C3_LateHandlerTimesOut ==
  ( /\ InPipeline
    /\ call.pc = "push"
    /\ Len(call.invoked) = call.step
    /\ call.sub = "deadline"
    /\ call.ctx = "live" )
  => /\ call.d.Payload.Status = ErrorLevel
     /\ call.d.Payload.Data = TimeoutMarker

\* C3, amended: the gate decides before it calls the handler. The payload
\* of a step whose handler was invoked is the one the handler returned, also
\* when the deadline of the step passed while it ran; the payload of a step
\* whose handler was not invoked is the timeout payload, and the step's
\* context was past its deadline when the gate ran.
C3_HandlerPayloadKept ==
  (InPipeline /\ call.pc = "push")
  => IF Len(call.invoked) = call.step
       THEN \E r \in HandlerResults : call.d = r.d /\ call.herr = r.err
       ELSE /\ call.sub = "deadline"
            /\ call.d = TimeoutData(call.hin)

\* C3, its case: the 30 s of the step passed while the handler ran, and the
\* handler then returned a payload with status ok
C3_Witness ==
  /\ InPipeline
  /\ call.pc = "push"
  /\ Len(call.invoked) = call.step
  /\ call.sub = "deadline"
  /\ call.ctx = "live"
  /\ call.d.Payload.Status = "ok"

\* C4: a gate of a pipeline step that has run its select on a context the
\* caller had cancelled has returned the timeout payload, without invoking
\* the handler.
C4_CancelledGateReturns ==
  ( /\ InPipeline
    /\ call.sub = "canceled"
    /\ call.spins > 0 )
  => /\ call.pc \in {"push", "returned"}
     /\ call.d = TimeoutData(call.hin)
     /\ Len(call.invoked) < call.step

\* C10: a pipeline call on a key that is not registered invokes no handler,
\* pushes one payload, with status error and the event of the input data,
\* and returns an error.
C10_PipelineMiss ==
  (call.op = "CallPipelineFunc" /\ call.meta \notin DOMAIN fun)
  => /\ call.invoked = <<>>
     /\ call.pc # "returned" => call.pushed = <<>>
     /\ call.pc = "returned"
          => /\ Len(call.pushed) = 1
             /\ call.pushed[1].payload.Status = ErrorLevel
             /\ call.pushed[1].payload.Event = call.data.Payload.Event
             /\ call.ret # CallNil

\* C10, its case: a pipeline call on an unregistered key has returned
C10_Witness ==
  /\ call.op = "CallPipelineFunc"
  /\ call.meta \notin DOMAIN fun
  /\ call.pc = "returned"

\* C11: a CallFunc on a key that is not registered invokes no handler and
\* returns an error and a payload with status error and the event of the
\* input data.
C11_CallFuncMiss ==
  (call.op = "CallFunc" /\ call.meta \notin DOMAIN fun)
  => /\ call.pc = "returned"
     /\ call.invoked = <<>>
     /\ call.ret # CallNil
     /\ call.d.Payload.Status = ErrorLevel
     /\ call.d.Payload.Event = call.data.Payload.Event

\* C11, its case: a CallFunc on an unregistered key has returned
C11_Witness ==
  /\ call.op = "CallFunc"
  /\ call.meta \notin DOMAIN fun
  /\ call.pc = "returned"
  /\ call.data.Payload.Event # NoEvent

\* C12: a dispatch call on a registered key returns a nil error, whatever
\* the handler or the gate returned, and CallFunc has then run the gate once
\* and the handler at most once; a dispatch call that returns an error was
\* made on a key that is not registered.
C12_ErrorOnlyOnMiss ==
  call.pc = "returned" =>
    /\ call.meta \in DOMAIN fun
         => /\ call.ret = CallNil
            /\ call.op = "CallFunc"
                 => call.step = 1 /\ Len(call.invoked) <= 1
    /\ call.ret # CallNil => call.meta \notin DOMAIN fun

\* C12, its case: the handler of a CallFunc returned an error and a payload
\* with status error, and the call returned nil
C12_Witness ==
  /\ call.op = "CallFunc"
  /\ call.pc = "returned"
  /\ call.meta \in DOMAIN fun
  /\ call.herr
  /\ call.d.Payload.Status = ErrorLevel
  /\ call.ret = CallNil

\* C15: a gate whose context is past its deadline when its select runs does
\* not invoke the handler and returns the input's client handle and a payload
\* with the input's event, status error and the timeout marker; the handler
\* is invoked only on a context that is not done, once, and the gate returns
\* the data the handler returned, whether or not it returned an error too.
C15_GateDecides ==
  [][/\ (call.pc = "select" /\ call.sub = "deadline")
          => /\ call'.pc # "handler"
             /\ call'.invoked = call.invoked
             /\ call'.pc # "select"
                  => call'.d = [Client |-> call.hin.Client,
                                Payload |-> [Event |-> call.hin.Payload.Event,
                                             Data |-> TimeoutMarker,
                                             Status |-> ErrorLevel]]
     /\ (call.pc = "select" /\ call'.pc = "handler")
          => /\ call.sub = "live"
             /\ call'.invoked = Append(call.invoked, call.fn)
             /\ Len(call'.invoked) = call.step
     /\ (call.pc = "handler" /\ call'.pc \notin {"handler", "idle"})
          => /\ \E r \in HandlerResults : call'.d = r.d /\ call'.herr = r.err
             /\ call'.invoked = call.invoked]_vars

\* C15, its case: a CallFunc made with a context past its deadline returned
\* the timeout payload with the client handle, and no handler was invoked
C15_Witness ==
  /\ call.op = "CallFunc"
  /\ call.pc = "returned"
  /\ call.meta \in DOMAIN fun
  /\ call.ctx = "deadline"
  /\ call.invoked = <<>>
  /\ call.d.Client = call.data.Client
  /\ call.d.Client # NoClient
  /\ call.d.Payload.Data = TimeoutMarker

\* C16: the push of a payload whose status is not error, whether or not the
\* handler returned an error with it, is followed by the gate of the child
\* when the node has one, and by the return of nil when it has none; the
\* loop leaves a node that has a child only on a payload with status error.
C16_HandlerErrorGoesOn ==
  [][(InPipeline /\ call.pc = "push" /\ call'.pc # "push")
     => /\ call'.pushed = Append(call.pushed, [node |-> call.node,
                                                payload |-> call.d.Payload])
        /\ call.d.Payload.Status # ErrorLevel
             => IF funcTree[call.node].children # Nil
                  THEN /\ call'.pc = "select"
                       /\ call'.node = funcTree[call.node].children
                       /\ call'.fn = funcTree[call'.node].main
                       /\ call'.step = call.step + 1
                  ELSE /\ call'.pc = "returned"
                       /\ call'.ret = CallNil
        /\ (call'.pc = "returned" /\ funcTree[call.node].children # Nil)
             => call.d.Payload.Status = ErrorLevel]_vars

\* C16, its case: the first handler returned an error and a payload with
\* status ok, the payload was pushed and the child's handler is running
C16_Witness ==
  /\ InPipeline
  /\ call.pc = "handler"
  /\ call.step = 2
  /\ call.herr
  /\ Len(call.pushed) = 1
  /\ call.pushed[1].payload.Status = "ok"
  /\ call.invoked[2] = funcTree[funcTree[CallChain[1]].children].main

\* C17: the children links form no cycle: the chain from any node ends at a
\* node without a child, after at most as many nodes as the tree has.
C17_NoCycle ==
  \A k \in DOMAIN funcTree :
    Len(ChainFrom(k, Cardinality(DOMAIN funcTree) + 1))
      <= Cardinality(DOMAIN funcTree)

\* C18: every tree node belongs to a handler that is registered under a key:
\* a rejected Handle call leaves no node behind.
C18_NoOrphanNode ==
  \A n \in DOMAIN funcTree :
    \E k \in DOMAIN fun : FuncKey(fun[k]) = n

\* C19: the handler a pipeline call on a registered key invokes first is the
\* handler registered under that key.
C19_OwnHandlerFirst ==
  (InPipeline /\ call.pc = "handler" /\ call.step = 1)
  => call.invoked[1] = fun[call.meta]

(***************************************************************************)
(* The lock: the claims.                                                   *)
(***************************************************************************)
\* C13: while a Handle call is in its locked section no dispatch holds the
\* read lock and no other Handle call is in its locked section, the read
\* locks counted are those of the dispatches inside; and every step that
\* changes the key -> handler map or the tree is the locked section of a
\* Handle call.
C13_MutualExclusion ==
  /\ [](/\ readers = Cardinality({d \in Dispatchers : dcall[d] = "in"})
        /\ \A t \in Writers :
             hcall[t].pc = "locked"
             => /\ readers = 0
                /\ \A u \in Writers \ {t} : hcall[u].pc # "locked")
  /\ [][(fun' # fun \/ funcTree' # funcTree)
        => \E t \in Writers :
             /\ hcall[t].pc = "locked"
             /\ hcall'[t].pc = "idle"
             /\ readers = 0]_vars

\* C13, its case: a Handle call is in its locked section, on a registry that
\* has an entry, while a dispatch waits for the read lock
C13_Witness ==
  /\ fun # <<>>
  /\ \E t \in Writers : hcall[t].pc = "locked"
  /\ \E d \in Dispatchers : dcall[d] = "blocked"

C20_StickyUnderConcurrency ==
  [][err # ErrNil
     => /\ fun' = fun
        /\ funcTree' = funcTree
        /\ err' = err]_vars
====
